---- MODULE Spec2Model ----
(***************************************************************************)
(* Model of the atomic-upgrade helpers                                     *)
(*   usr/local/lib/atomic/fstab.py    (FstabEntry, update_fstab)           *)
(*   usr/local/lib/atomic/rootdev.py  (run, detect_root, _detect_dm_type,  *)
(*                                     build_cmdline, main)                *)
(*                                                                         *)
(* Text is a sequence of tokens.  A token is one character of the text     *)
(* ("/", ",", a blank, a tab, a newline, a carriage return, "#", "[") or   *)
(* an indivisible word ("dev", "btrfs", "rw", "a", "b", "subvol=",         *)
(* "device:").  Every string operation of the source (strip, split,        *)
(* splitlines, join, startswith, substring test) is computed on these      *)
(* sequences.                                                              *)
(***************************************************************************)
EXTENDS Integers, Sequences, FiniteSets, TLC

VARIABLES
    \* ---- update_fstab: the directory of path, and the name of path
    disk, path,
    \* ---- update_fstab: arguments, locals, position, outcome
    pc, old_subvol, new_subvol, entries, updated, original_stat,
    result, stderr, raisedAt, steps,
    \* ---- update_fstab: history kept for the properties
    startContent, tampered, runs, history,
    \* ---- replace_subvol applied twice to one entry
    rw_stage, rw_entry, rw_X, rw_Y, rw_orig,
    \* ---- detect_root
    dpc, info, detected, mapper, table, lv_info, pv, pv_mapper, pv_table,
    underlying, queries,
    \* ---- rootdev.py cmdline SUBVOL: position of main, its argument, its output
    mpc, subvol_arg, cmdline,
    \* ---- one line parsed, formatted, rewritten and formatted again
    ln_stage, ln_line, ln_old, ln_new, ln_entry, ln_changed, ln_out

fvars == <<disk, path, pc, old_subvol, new_subvol, entries,
           updated, original_stat, result, stderr, raisedAt, steps,
           startContent, tampered, runs, history>>
rvars == <<rw_stage, rw_entry, rw_X, rw_Y, rw_orig>>
dvars == <<dpc, info, detected, mapper, table, lv_info, pv, pv_mapper,
           pv_table, underlying, queries>>
cvars == <<mpc, subvol_arg, cmdline>>
lvars == <<ln_stage, ln_line, ln_old, ln_new, ln_entry, ln_changed, ln_out>>
vars == <<fvars, rvars, dvars, cvars, lvars>>

(***************************************************************************)
(* Bounds                                                                  *)
(***************************************************************************)
\* number of consecutive update_fstab runs on the same path
MaxRuns == 2

(***************************************************************************)
(* Characters                                                              *)
(***************************************************************************)
SP == " "
TAB == "TAB"
NL == "NL"
CR == "CR"
\* what str.strip() and str.split() of Python treat as whitespace
WS == {SP, TAB, NL, CR}
SLASH == {"/"}
EMPTY == << >>

(***************************************************************************)
(* Python string operations on token sequences                             *)
(***************************************************************************)
RECURSIVE lstrip(_, _)
lstrip(s, cs) ==
    IF s # EMPTY /\ Head(s) \in cs THEN lstrip(Tail(s), cs) ELSE s

RECURSIVE rstrip(_, _)
rstrip(s, cs) ==
    IF s # EMPTY /\ s[Len(s)] \in cs
    THEN rstrip(SubSeq(s, 1, Len(s) - 1), cs)
    ELSE s

strip(s, cs) == rstrip(lstrip(s, cs), cs)

\* index of the first token of s that is in cs, Len(s)+1 when there is none
FirstIn(s, cs) ==
    IF \E i \in 1..Len(s) : s[i] \in cs
    THEN CHOOSE i \in 1..Len(s) : s[i] \in cs /\ \A j \in 1..(i - 1) : s[j] \notin cs
    ELSE Len(s) + 1

\* index of the last token of s that is in cs, 0 when there is none
LastIn(s, cs) ==
    IF \E i \in 1..Len(s) : s[i] \in cs
    THEN CHOOSE i \in 1..Len(s) : s[i] \in cs /\ \A j \in (i + 1)..Len(s) : s[j] \notin cs
    ELSE 0

\* s.split(sep): pieces between separators, empty pieces kept
RECURSIVE split_sep(_, _)
split_sep(s, sep) ==
    LET i == FirstIn(s, {sep})
    IN IF i > Len(s) THEN <<s>>
       ELSE <<SubSeq(s, 1, i - 1)>> \o split_sep(SubSeq(s, i + 1, Len(s)), sep)

\* s.split(): runs of whitespace separate, no empty pieces
RECURSIVE split_ws(_)
split_ws(s) ==
    LET t == lstrip(s, WS)
        i == FirstIn(t, WS)
    IN IF t = EMPTY THEN << >>
       ELSE <<SubSeq(t, 1, i - 1)>> \o split_ws(SubSeq(t, i, Len(t)))

\* the line boundaries of str.splitlines: "\n", "\r", and "\r\n" as one
EOL == {NL, CR}

\* the index of the last token of the first line of s (of its terminator,
\* when it has one)
LineEnd(s) ==
    LET i == FirstIn(s, EOL)
    IN IF i > Len(s) THEN Len(s)
       ELSE IF s[i] = CR /\ i < Len(s) /\ s[i + 1] = NL THEN i + 1
       ELSE i

\* s.splitlines(keepends=True)
RECURSIVE splitlines_keepends(_)
splitlines_keepends(s) ==
    IF s = EMPTY THEN << >>
    ELSE <<SubSeq(s, 1, LineEnd(s))>>
         \o splitlines_keepends(SubSeq(s, LineEnd(s) + 1, Len(s)))

\* s.splitlines()
RECURSIVE splitlines(_)
splitlines(s) ==
    IF s = EMPTY THEN << >>
    ELSE <<SubSeq(s, 1, FirstIn(s, EOL) - 1)>>
         \o splitlines(SubSeq(s, LineEnd(s) + 1, Len(s)))

\* sep.join(parts)
RECURSIVE join(_, _)
join(parts, sep) ==
    IF parts = << >> THEN EMPTY
    ELSE IF Len(parts) = 1 THEN parts[1]
    ELSE parts[1] \o sep \o join(Tail(parts), sep)

\* sub in s
contains(s, sub) ==
    \E i \in 0..(Len(s) - Len(sub)) : SubSeq(s, i + 1, i + Len(sub)) = sub

\* s.startswith(pre)
startswith(s, pre) ==
    Len(s) >= Len(pre) /\ SubSeq(s, 1, Len(pre)) = pre

\* s.rsplit("/", 1)[-1]
rsplit_last(s) == SubSeq(s, LastIn(s, SLASH) + 1, Len(s))

(***************************************************************************)
(* FstabEntry                                                              *)
(***************************************************************************)
SUBVOL == <<"subvol=">>

\* NonData with the stripped line kept as raw
NonData_Stripped(line) ==
    [raw |-> strip(line, WS), device |-> EMPTY, mountpoint |-> EMPTY, fstype |-> EMPTY,
     options |-> EMPTY, dump |-> <<"0">>, passno |-> <<"0">>, is_data |-> FALSE]

\* cls(raw=line): the dataclass defaults
NonData(line) ==
    [raw |-> line, device |-> EMPTY, mountpoint |-> EMPTY, fstype |-> EMPTY,
     options |-> EMPTY, dump |-> <<"0">>, passno |-> <<"0">>, is_data |-> FALSE]

parse(line) ==
    LET stripped == strip(line, WS)
        parts == split_ws(stripped)
    IN IF stripped = EMPTY \/ startswith(stripped, <<"#">>) THEN NonData(line)
       ELSE IF Len(parts) < 4 THEN NonData(line)
       ELSE [raw |-> line,
             device |-> parts[1],
             mountpoint |-> parts[2],
             fstype |-> parts[3],
             options |-> parts[4],
             dump |-> IF Len(parts) > 4 THEN parts[5] ELSE <<"0">>,
             passno |-> IF Len(parts) > 5 THEN parts[6] ELSE <<"0">>,
             is_data |-> TRUE]

\* one turn of the loop of replace_subvol: does opt match old?
OptMatches(opt, old) ==
    /\ startswith(opt, SUBVOL)
    /\ lstrip(SubSeq(opt, 2, Len(opt)), SLASH) = strip(old, SLASH)

\* RewriteOpt with the slash style of the original value not kept: the new
\* value is written without a leading slash
RewriteOpt_DropPrefix(opt, old, new) ==
    IF OptMatches(opt, old)
    THEN SUBVOL \o strip(new, SLASH)
    ELSE opt

\* RewriteOpt with the slash style taken from new, not from the original value
RewriteOpt_StyleOfNew(opt, old, new) ==
    IF OptMatches(opt, old)
    THEN LET prefix == IF startswith(new, <<"/">>) THEN <<"/">> ELSE EMPTY
         IN SUBVOL \o prefix \o strip(new, SLASH)
    ELSE opt

\* one turn of the loop of replace_subvol: what is appended to result
RewriteOpt(opt, old, new) ==
    IF OptMatches(opt, old)
    THEN LET val == SubSeq(opt, 2, Len(opt))
             prefix == IF startswith(val, <<"/">>) THEN <<"/">> ELSE EMPTY
         IN SUBVOL \o prefix \o strip(new, SLASH)
    ELSE opt

\* replace_subvol(self, old, new): the entry after the call, and the value returned
replace_subvol(e, old, new) ==
    IF ~e.is_data THEN [entry |-> e, changed |-> FALSE]
    ELSE LET opts == split_sep(e.options, ",")
             changed == \E i \in 1..Len(opts) : OptMatches(opts[i], old)
             res == [i \in 1..Len(opts) |-> RewriteOpt(opts[i], old, new)]
         IN [entry |-> IF changed THEN [e EXCEPT !.options = join(res, <<",">>)] ELSE e,
             changed |-> changed]

format(e) ==
    IF ~e.is_data THEN e.raw
    ELSE e.device \o <<TAB>> \o e.mountpoint \o <<TAB>> \o e.fstype
         \o <<TAB>> \o e.options \o <<TAB>> \o e.dump \o <<SP>> \o e.passno \o <<NL>>

(***************************************************************************)
(* Files                                                                   *)
(*                                                                         *)
(* A file is absent or holds a text and the metadata update_fstab copies:  *)
(* owner (uid, gid) and permission bits.  The directory of path is a       *)
(* function from file names to files.                                      *)
(***************************************************************************)
Absent == [exists |-> FALSE, text |-> EMPTY, owner |-> "none", mode |-> "none"]
File(t, o, m) == [exists |-> TRUE, text |-> t, owner |-> o, mode |-> m]

\* the suffixes the name of path may carry: none (or any other, as in
\* /etc/fstab), .bak, .tmp
Suffixes == {"", ".bak", ".tmp"}
Names == {[stem |-> "fstab", suffix |-> s] : s \in Suffixes}

\* p.with_suffix(ext): the suffix of the name is replaced, so the result is p
\* itself when the name of p already ends in ext
with_suffix(p, ext) == [p EXCEPT !.suffix = ext]

\* line 127 and line 159
backup == with_suffix(path, ".bak")
tmp == with_suffix(path, ".tmp")

\* the files a reader finds under path, under the backup name and under the
\* temporary name
pathFile == disk[path]
bakFile == disk[backup]
tmpFile == disk[tmp]

\* open(name, "w"): the file is created with the process's owner and default
\* mode, or truncated keeping its metadata
OpenForWrite(f) ==
    IF f.exists THEN [f EXCEPT !.text = EMPTY] ELSE File(EMPTY, "process", "default")

\* the lengths a write that fails may have reached: nothing, half, everything
\* (the last one: the data went through and a later metadata call failed)
FailedWriteCuts(t) == {0, Len(t) \div 2, Len(t)}

\* text mode with universal newlines: "\r\n" and a lone "\r" are read as "\n"
RECURSIVE universal_newlines(_)
universal_newlines(bytes) ==
    IF bytes = EMPTY THEN EMPTY
    ELSE IF Head(bytes) = CR
    THEN <<NL>> \o universal_newlines(IF Len(bytes) > 1 /\ bytes[2] = NL
                                      THEN SubSeq(bytes, 3, Len(bytes))
                                      ELSE Tail(bytes))
    ELSE <<Head(bytes)>> \o universal_newlines(Tail(bytes))

\* Path.read_text(): the file is opened in text mode
read_text(bytes) == universal_newlines(bytes)

(***************************************************************************)
(* The mount tables update_fstab is run on                                 *)
(***************************************************************************)
CommentLine == <<"#", SP, "fstab", NL>>
BlankLine == <<SP, NL>>
RootLine(val) ==
    <<"dev", SP, "/", SP, "btrfs", SP, "rw", ",", "subvol=">> \o val
        \o <<",", "noatime", SP, "0", SP, "1", NL>>
\* a non-root entry that names the same subvolume as the root entry
HomeLine == <<"dev", SP, "/", "home", TAB, "btrfs", SP, "subvol=", "/", "a", SP, "0", SP, "2", NL>>
\* four fields, no line terminator
RootLineShort == <<"dev", TAB, TAB, "/", SP, "btrfs", SP, "subvol=", "a">>
RootLineNoSubvol == <<"dev", SP, "/", SP, "ext4", SP, "rw", SP, "0", SP, "1", NL>>
\* three fields: not a data line, although its second field is /
MalformedLine == <<"dev", SP, "/", SP, "btrfs", NL>>
\* a table saved with "\r\n" line terminators
CrlfTable ==
    <<"#", SP, "fstab", CR, NL,
      "dev", SP, "/", SP, "btrfs", SP, "subvol=", "a", SP, "0", SP, "1", CR, NL>>

Tables ==
    { CommentLine \o RootLine(<<"/", "a">>) \o HomeLine \o BlankLine,
      CommentLine \o RootLineShort,
      CommentLine \o HomeLine,
      RootLine(<<"/", "a">>) \o RootLine(<<"/", "c">>),
      RootLine(<<"/", "a">>) \o RootLine(<<"a">>) \o HomeLine,
      RootLine(<<"/", "a">>) \o RootLine(<<"/", "c">>) \o RootLine(<<"a">>),
      RootLineNoSubvol \o HomeLine,
      RootLine(<<"/", "/", "a">>),
      MalformedLine \o HomeLine,
      CrlfTable,
      EMPTY }

OldArgs == { <<"a">>, <<"/", "a">>, <<"a", "/">>, <<"c">> }
NewArgs == { <<"b">>, <<"/", "b", "/">>, <<"a">> }

\* what another writer may put at path between the rename and the re-read
TamperTexts ==
    { EMPTY,
      CommentLine \o RootLineNoSubvol,
      CommentLine \o HomeLine \o <<"#", SP, "subvol=", "b", NL>> }

(***************************************************************************)
(* update_fstab                                                            *)
(***************************************************************************)
\* "".join(e.format() for e in entries)
Serialize(es) == join([i \in 1..Len(es) |-> format(es[i])], EMPTY)

\* [FstabEntry.parse(line) for line in lines]
ParseAll(text) ==
    LET lines == splitlines_keepends(text)
    IN [i \in 1..Len(lines) |-> parse(lines[i])]

IsRoot(e) == e.is_data /\ e.mountpoint = <<"/">>

\* the post-write test: does the text name the new subvolume?
Verified(text, new) ==
    \/ contains(text, SUBVOL \o <<"/">> \o strip(new, SLASH))
    \/ contains(text, SUBVOL \o strip(new, SLASH))

\* an exception leaves update_fstab: nothing is returned, the interpreter
\* prints a traceback
Raise(at) ==
    /\ pc' = "done"
    /\ result' = "raise"
    /\ raisedAt' = at
    /\ stderr' = stderr \cup {"TRACEBACK"}

Return(value, msgs) ==
    /\ pc' = "done"
    /\ result' = value
    /\ stderr' = stderr \cup msgs
    /\ UNCHANGED raisedAt

\* sys.exit(0 if update_fstab(...) else 1); an uncaught exception exits with 1
ExitCode == IF result = "true" THEN 0 ELSE 1

FInit ==
    /\ path \in Names
    /\ \E t \in Tables :
          disk = [n \in Names |->
                     IF n = path THEN File(t, "fileowner", "filemode") ELSE Absent]
    /\ pc = "is_file"
    /\ old_subvol \in OldArgs
    /\ new_subvol \in NewArgs
    /\ entries = << >>
    /\ updated = 0
    /\ original_stat = [owner |-> "none", mode |-> "none"]
    /\ result = "none"
    /\ stderr = {}
    /\ raisedAt = "none"
    /\ steps = {}
    /\ startContent = pathFile.text
    /\ tampered = FALSE
    /\ runs = 1
    /\ history = << >>

FInitAbsent ==
    /\ path \in Names
    /\ disk = [n \in Names |-> Absent]
    /\ pc = "is_file"
    /\ old_subvol \in OldArgs
    /\ new_subvol \in NewArgs
    /\ entries = << >>
    /\ updated = 0
    /\ original_stat = [owner |-> "none", mode |-> "none"]
    /\ result = "none"
    /\ stderr = {}
    /\ raisedAt = "none"
    /\ steps = {}
    /\ startContent = EMPTY
    /\ tampered = FALSE
    /\ runs = 1
    /\ history = << >>

\* lines 122-124
IsFileCheck ==
    /\ pc = "is_file"
    /\ IF ~pathFile.exists
       THEN Return("false", {"ERROR: fstab not found"})
       ELSE /\ pc' = "backup_open"
            /\ UNCHANGED <<result, stderr, raisedAt>>
    /\ UNCHANGED <<disk, path, old_subvol, new_subvol, entries,
                   updated, original_stat, steps, startContent, tampered, runs,
                   history>>
    /\ UNCHANGED <<rvars, dvars, cvars, lvars>>

\* lines 127-128, shutil.copy2: source and destination the same file is an
\* error (SameFileError); otherwise the destination is opened for writing ...
BackupOpen ==
    /\ pc = "backup_open"
    /\ \/ /\ backup # path
          /\ disk' = [disk EXCEPT ![backup] = OpenForWrite(@)]
          /\ pc' = "backup_copy"
          /\ UNCHANGED <<result, stderr, raisedAt>>
       \/ /\ Raise("backup")
          /\ UNCHANGED disk
    /\ steps' = steps \cup {"backup"}
    /\ UNCHANGED <<path, old_subvol, new_subvol, entries,
                   updated, original_stat, startContent, tampered, runs, history>>
    /\ UNCHANGED <<rvars, dvars, cvars, lvars>>

\* BackupCopy with the copy of the content left out
BackupCopy_Skipped ==
    /\ pc = "backup_copy"
    /\ pc' = "parse"
    /\ UNCHANGED <<disk, path, old_subvol, new_subvol, entries,
                   updated, original_stat, result, stderr, raisedAt, steps,
                   startContent, tampered, runs, history>>
    /\ UNCHANGED <<rvars, dvars, cvars, lvars>>

\* ... and the content, then the mode (and times), are copied; the owner of
\* the destination is not touched: the process when the run created .bak, the
\* owner it had when it was already there
BackupCopy ==
    /\ pc = "backup_copy"
    /\ \/ /\ disk' = [disk EXCEPT ![backup] =
                         File(pathFile.text, @.owner, pathFile.mode)]
          /\ pc' = "parse"
          /\ UNCHANGED <<result, stderr, raisedAt>>
       \/ /\ \E k \in FailedWriteCuts(pathFile.text) :
                 disk' = [disk EXCEPT ![backup].text =
                             SubSeq(pathFile.text, 1, k)]
          /\ Raise("backup")
    /\ UNCHANGED <<path, old_subvol, new_subvol, entries, updated,
                   original_stat, steps, startContent, tampered, runs, history>>
    /\ UNCHANGED <<rvars, dvars, cvars, lvars>>

\* lines 130-131
ReadParse ==
    /\ pc = "parse"
    /\ entries' = ParseAll(read_text(pathFile.text))
    /\ steps' = steps \cup {"parse"}
    /\ pc' = "select"
    /\ UNCHANGED <<disk, path, old_subvol, new_subvol, updated,
                   original_stat, result, stderr, raisedAt, startContent,
                   tampered, runs, history>>
    /\ UNCHANGED <<rvars, dvars, cvars, lvars>>

\* lines 134-138
SelectRoot ==
    /\ pc = "select"
    /\ IF \A i \in 1..Len(entries) : ~IsRoot(entries[i])
       THEN Return("false", {"ERROR: No root (/) entry found in fstab"})
       ELSE /\ pc' = "replace"
            /\ UNCHANGED <<result, stderr, raisedAt>>
    /\ UNCHANGED <<disk, path, old_subvol, new_subvol, entries,
                   updated, original_stat, steps, startContent, tampered, runs,
                   history>>
    /\ UNCHANGED <<rvars, dvars, cvars, lvars>>

\* ReplaceRoot with the return after the "subvol not found" message left out
ReplaceRoot_NoReturn ==
    /\ pc = "replace"
    /\ LET r == [i \in 1..Len(entries) |->
                    IF IsRoot(entries[i])
                    THEN replace_subvol(entries[i], old_subvol, new_subvol)
                    ELSE [entry |-> entries[i], changed |-> FALSE]]
           n == Cardinality({i \in 1..Len(entries) : r[i].changed})
       IN /\ entries' = [i \in 1..Len(entries) |-> r[i].entry]
          /\ updated' = n
          /\ pc' = "tmp_open"
          /\ stderr' = IF n = 0
                       THEN stderr \cup {"ERROR: Root entry exists but subvol not found"}
                       ELSE IF n > 1
                       THEN stderr \cup {"WARN: Multiple root entries updated"}
                       ELSE stderr
          /\ UNCHANGED <<result, raisedAt>>
    /\ UNCHANGED <<disk, path, old_subvol, new_subvol,
                   original_stat, steps, startContent, tampered, runs, history>>
    /\ UNCHANGED <<rvars, dvars, cvars, lvars>>

\* ReplaceRoot with the warning given whenever the table has several root
\* entries, however many of them were rewritten
ReplaceRoot_WarnOnSeveralRoots ==
    /\ pc = "replace"
    /\ LET r == [i \in 1..Len(entries) |->
                    IF IsRoot(entries[i])
                    THEN replace_subvol(entries[i], old_subvol, new_subvol)
                    ELSE [entry |-> entries[i], changed |-> FALSE]]
           n == Cardinality({i \in 1..Len(entries) : r[i].changed})
       IN /\ entries' = [i \in 1..Len(entries) |-> r[i].entry]
          /\ updated' = n
          /\ IF n = 0
             THEN Return("false", {"ERROR: Root entry exists but subvol not found"})
             ELSE /\ pc' = "tmp_open"
                  /\ stderr' = IF Cardinality({i \in 1..Len(entries) : IsRoot(entries[i])}) > 1
                               THEN stderr \cup {"WARN: Multiple root entries updated"}
                               ELSE stderr
                  /\ UNCHANGED <<result, raisedAt>>
    /\ UNCHANGED <<disk, path, old_subvol, new_subvol,
                   original_stat, steps, startContent, tampered, runs, history>>
    /\ UNCHANGED <<rvars, dvars, cvars, lvars>>

\* lines 140-156: the loop over the root entries, which are entries of the
\* list itself and are rewritten in place
ReplaceRoot ==
    /\ pc = "replace"
    /\ LET r == [i \in 1..Len(entries) |->
                    IF IsRoot(entries[i])
                    THEN replace_subvol(entries[i], old_subvol, new_subvol)
                    ELSE [entry |-> entries[i], changed |-> FALSE]]
           n == Cardinality({i \in 1..Len(entries) : r[i].changed})
       IN /\ entries' = [i \in 1..Len(entries) |-> r[i].entry]
          /\ updated' = n
          /\ IF n = 0
             THEN Return("false", {"ERROR: Root entry exists but subvol not found"})
             ELSE /\ pc' = "tmp_open"
                  /\ stderr' = IF n > 1
                               THEN stderr \cup {"WARN: Multiple root entries updated"}
                               ELSE stderr
                  /\ UNCHANGED <<result, raisedAt>>
    /\ UNCHANGED <<disk, path, old_subvol, new_subvol,
                   original_stat, steps, startContent, tampered, runs, history>>
    /\ UNCHANGED <<rvars, dvars, cvars, lvars>>

\* lines 159-161: path.stat(), then write_text opens .tmp for writing ...
TmpOpen ==
    /\ pc = "tmp_open"
    /\ original_stat' = [owner |-> pathFile.owner, mode |-> pathFile.mode]
    /\ \/ /\ disk' = [disk EXCEPT ![tmp] = OpenForWrite(@)]
          /\ pc' = "tmp_write"
          /\ UNCHANGED <<result, stderr, raisedAt>>
       \/ /\ Raise("write")
          /\ UNCHANGED disk
    /\ steps' = steps \cup {"write_tmp"}
    /\ UNCHANGED <<path, old_subvol, new_subvol, entries, updated,
                   startContent, tampered, runs, history>>
    /\ UNCHANGED <<rvars, dvars, cvars, lvars>>

\* ... and writes the serialized entries
TmpWrite ==
    /\ pc = "tmp_write"
    /\ \/ /\ disk' = [disk EXCEPT ![tmp].text = Serialize(entries)]
          /\ pc' = "chown"
          /\ UNCHANGED <<result, stderr, raisedAt>>
       \/ /\ \E k \in FailedWriteCuts(Serialize(entries)) :
                 disk' = [disk EXCEPT ![tmp].text =
                             SubSeq(Serialize(entries), 1, k)]
          /\ Raise("write")
    /\ UNCHANGED <<path, old_subvol, new_subvol, entries, updated,
                   original_stat, steps, startContent, tampered, runs, history>>
    /\ UNCHANGED <<rvars, dvars, cvars, lvars>>

\* line 163
Chown ==
    /\ pc = "chown"
    /\ \/ /\ disk' = [disk EXCEPT ![tmp].owner = original_stat.owner]
          /\ pc' = "chmod"
          /\ UNCHANGED <<result, stderr, raisedAt>>
       \/ /\ Raise("chown")
          /\ UNCHANGED disk
    /\ steps' = steps \cup {"chown"}
    /\ UNCHANGED <<path, old_subvol, new_subvol, entries, updated,
                   original_stat, startContent, tampered, runs, history>>
    /\ UNCHANGED <<rvars, dvars, cvars, lvars>>

\* line 164
Chmod ==
    /\ pc = "chmod"
    /\ \/ /\ disk' = [disk EXCEPT ![tmp].mode = original_stat.mode]
          /\ pc' = "rename"
          /\ UNCHANGED <<result, stderr, raisedAt>>
       \/ /\ Raise("chmod")
          /\ UNCHANGED disk
    /\ steps' = steps \cup {"chmod"}
    /\ UNCHANGED <<path, old_subvol, new_subvol, entries, updated,
                   original_stat, startContent, tampered, runs, history>>
    /\ UNCHANGED <<rvars, dvars, cvars, lvars>>

\* line 166: tmp.replace(path), rename(2); renaming a file onto itself does
\* nothing
Rename ==
    /\ pc = "rename"
    /\ \/ /\ disk' = IF tmp = path THEN disk
                     ELSE [disk EXCEPT ![path] = tmpFile,
                                       ![tmp] = Absent]
          /\ pc' = "verify"
          /\ UNCHANGED <<result, stderr, raisedAt>>
       \/ /\ Raise("rename")
          /\ UNCHANGED disk
    /\ steps' = steps \cup {"rename"}
    /\ UNCHANGED <<path, old_subvol, new_subvol, entries, updated,
                   original_stat, startContent, tampered, runs, history>>
    /\ UNCHANGED <<rvars, dvars, cvars, lvars>>

\* Verify with the new subvolume looked for as it was given, slashes included
Verify_Unnormalized ==
    /\ pc = "verify"
    /\ IF contains(read_text(pathFile.text), SUBVOL \o new_subvol)
       THEN Return("true", {})
       ELSE /\ pc' = "rollback_open"
            /\ stderr' = stderr \cup {"ERROR: Verification failed, restoring backup"}
            /\ UNCHANGED <<result, raisedAt>>
    /\ steps' = steps \cup {"verify"}
    /\ UNCHANGED <<disk, path, old_subvol, new_subvol, entries,
                   updated, original_stat, startContent, tampered, runs, history>>
    /\ UNCHANGED <<rvars, dvars, cvars, lvars>>

\* lines 169-172 and 176
Verify ==
    /\ pc = "verify"
    /\ IF Verified(read_text(pathFile.text), new_subvol)
       THEN Return("true", {})
       ELSE /\ pc' = "rollback_open"
            /\ stderr' = stderr \cup {"ERROR: Verification failed, restoring backup"}
            /\ UNCHANGED <<result, raisedAt>>
    /\ steps' = steps \cup {"verify"}
    /\ UNCHANGED <<disk, path, old_subvol, new_subvol, entries,
                   updated, original_stat, startContent, tampered, runs, history>>
    /\ UNCHANGED <<rvars, dvars, cvars, lvars>>

\* line 173, shutil.copy2(backup, path): path is opened for writing, which
\* truncates it in place; the call is not guarded, an error of the open
\* leaves update_fstab as an exception ...
RollbackOpen ==
    /\ pc = "rollback_open"
    /\ \/ /\ disk' = [disk EXCEPT ![path] = OpenForWrite(@)]
          /\ pc' = "rollback_copy"
          /\ UNCHANGED <<result, stderr, raisedAt>>
       \/ /\ Raise("rollback")
          /\ UNCHANGED disk
    /\ steps' = steps \cup {"rollback"}
    /\ UNCHANGED <<path, old_subvol, new_subvol, entries, updated,
                   original_stat, startContent, tampered, runs, history>>
    /\ UNCHANGED <<rvars, dvars, cvars, lvars>>

\* ... and the backup's content, then its mode, are copied into it, the owner
\* of path staying what it was; line 174.  A write that fails leaves path
\* with what was written so far and update_fstab with an exception.
RollbackCopy ==
    /\ pc = "rollback_copy"
    /\ \/ /\ disk' = [disk EXCEPT ![path] =
                         File(bakFile.text, @.owner, bakFile.mode)]
          /\ Return("false", {})
       \/ /\ \E k \in FailedWriteCuts(bakFile.text) :
                 disk' = [disk EXCEPT ![path].text = SubSeq(bakFile.text, 1, k)]
          /\ Raise("rollback")
    /\ UNCHANGED <<path, old_subvol, new_subvol, entries, updated,
                   original_stat, steps, startContent, tampered, runs, history>>
    /\ UNCHANGED <<rvars, dvars, cvars, lvars>>

\* Another writer replaces the content of path after the rename and before
\* the re-read of line 170 (the pipeline takes no lock).
Tamper ==
    /\ pc = "verify"
    /\ ~tampered
    /\ \E t \in TamperTexts : disk' = [disk EXCEPT ![path].text = t]
    /\ tampered' = TRUE
    /\ UNCHANGED <<path, pc, old_subvol, new_subvol, entries,
                   updated, original_stat, result, stderr, raisedAt, steps,
                   startContent, runs, history>>
    /\ UNCHANGED <<rvars, dvars, cvars, lvars>>

\* The caller runs update_fstab again on the same path, with the same
\* arguments or with them exchanged.  The run that ended is entered in the
\* history: what path held when it began, and how it ended.
NextRun ==
    /\ pc = "done"
    /\ runs < MaxRuns
    /\ runs' = runs + 1
    /\ history' = Append(history, [start |-> startContent, result |-> result])
    /\ \/ UNCHANGED <<old_subvol, new_subvol>>
       \/ /\ old_subvol' = new_subvol
          /\ new_subvol' = old_subvol
    /\ pc' = "is_file"
    /\ entries' = << >>
    /\ updated' = 0
    /\ original_stat' = [owner |-> "none", mode |-> "none"]
    /\ result' = "none"
    /\ stderr' = {}
    /\ raisedAt' = "none"
    /\ steps' = {}
    /\ startContent' = pathFile.text
    /\ tampered' = FALSE
    /\ UNCHANGED <<disk, path>>
    /\ UNCHANGED <<rvars, dvars, cvars, lvars>>

FNext ==
    \/ IsFileCheck \/ BackupOpen \/ BackupCopy \/ ReadParse \/ SelectRoot
    \/ ReplaceRoot \/ TmpOpen \/ TmpWrite \/ Chown \/ Chmod \/ Rename
    \/ Verify \/ RollbackOpen \/ RollbackCopy \/ Tamper \/ NextRun

(***************************************************************************)
(* replace_subvol applied forth and back to one entry                      *)
(***************************************************************************)
\* subvolume names with leading, doubled and trailing slashes
SubvolValues ==
    { <<"a">>, <<"/", "a">>, <<"/", "/", "a">>, <<"a", "/">>, <<"/", "a", "/">>,
      <<"a", "/", "/">>, <<"/", "/", "a", "/">>, <<"a", "/", "b">>,
      <<"/", "a", "/", "b">>, EMPTY, <<"/">>, <<"/", "/">>, <<"b">>, <<"/", "b">>,
      <<"/", "/", "b", "/">> }

\* the options around the subvol= option
OptionsBefore == { EMPTY, <<"rw", ",">>, <<"rw", ",", "noatime", ",">> }
OptionsAfter == { EMPTY, <<",", "compress=", "zstd">> }

\* a value for new that holds a comma
NewValues == SubvolValues \cup { <<"b", ",", "c">> }

EntryLine(opts) == <<"dev", SP, "/", SP, "btrfs", SP>> \o opts \o <<SP, "0", SP, "1", NL>>

RInit ==
    /\ rw_X \in SubvolValues
    /\ rw_Y \in NewValues
    /\ \E b \in OptionsBefore, a \in OptionsAfter :
          rw_orig = b \o SUBVOL \o rw_X \o a
    /\ rw_entry = parse(EntryLine(rw_orig))
    /\ rw_stage = 0

\* entry.replace_subvol(X, Y)
RewriteForth ==
    /\ rw_stage = 0
    /\ rw_entry' = replace_subvol(rw_entry, rw_X, rw_Y).entry
    /\ rw_stage' = 1
    /\ UNCHANGED <<rw_X, rw_Y, rw_orig>>
    /\ UNCHANGED <<fvars, dvars, cvars, lvars>>

\* entry.replace_subvol(Y, X)
RewriteBack ==
    /\ rw_stage = 1
    /\ rw_entry' = replace_subvol(rw_entry, rw_Y, rw_X).entry
    /\ rw_stage' = 2
    /\ UNCHANGED <<rw_X, rw_Y, rw_orig>>
    /\ UNCHANGED <<fvars, dvars, cvars, lvars>>

RNext == RewriteForth \/ RewriteBack

(***************************************************************************)
(* One line through parse, format, replace_subvol and format               *)
(***************************************************************************)
\* what a line begins with, holds, and ends with
LineLeads == { EMPTY, <<SP>>, <<TAB, SP>> }
LineEnds == { EMPTY, <<NL>>, <<SP, NL>>, <<TAB>>, <<CR, NL>> }
DataOptions ==
    { <<"rw", ",", "subvol=", "/", "a", ",", "noatime">>,
      <<"subvol=", "a">>,
      <<"subvol=", "/", "/", "a", ",", "ro">>,
      <<"subvol=", "/", "a", ",", "subvol=", "a">>,
      <<"subvolid=", "5", ",", "subvol=", "/", "c">>,
      <<"rw">> }
LineBodies ==
    { EMPTY,
      <<"#">>,
      <<"#", "dev", SP, "/", SP, "btrfs", SP, "subvol=", "a", SP, "0", SP, "0">>,
      <<"dev">>,
      <<"dev", SP, "/">>,
      <<"dev", TAB, "/", SP, SP, "subvol=", "a">> }
    \cup { <<"dev", SP, "/", TAB, "btrfs", SP>> \o o : o \in DataOptions }
    \cup { <<"dev", SP, "/", SP, "btrfs", SP>> \o o \o <<SP, "0", SP, "1">> : o \in DataOptions }
Lines == { l \o b \o e : l \in LineLeads, b \in LineBodies, e \in LineEnds }

LineOldArgs == { <<"a">>, <<"/", "a">>, <<"a", "/">>, <<"c">> }
LineNewArgs == { <<"b">>, <<"/", "b">>, <<"/", "b", "/">>, EMPTY }

LInit ==
    /\ ln_stage = 0
    /\ ln_line \in Lines
    /\ ln_old \in LineOldArgs
    /\ ln_new \in LineNewArgs
    /\ ln_entry = NonData(EMPTY)
    /\ ln_changed = FALSE
    /\ ln_out = EMPTY

\* e = FstabEntry.parse(line)
ParseLine ==
    /\ ln_stage = 0
    /\ ln_entry' = parse(ln_line)
    /\ ln_stage' = 1
    /\ UNCHANGED <<ln_line, ln_old, ln_new, ln_changed, ln_out>>
    /\ UNCHANGED <<fvars, rvars, dvars, cvars>>

\* e.format(), after the parse and again after the rewrite
FormatLine ==
    /\ ln_stage \in {1, 3}
    /\ ln_out' = format(ln_entry)
    /\ ln_stage' = ln_stage + 1
    /\ UNCHANGED <<ln_line, ln_old, ln_new, ln_entry, ln_changed>>
    /\ UNCHANGED <<fvars, rvars, dvars, cvars>>

\* e.replace_subvol(old, new)
ReplaceLine ==
    /\ ln_stage = 2
    /\ ln_entry' = replace_subvol(ln_entry, ln_old, ln_new).entry
    /\ ln_changed' = replace_subvol(ln_entry, ln_old, ln_new).changed
    /\ ln_stage' = 3
    /\ UNCHANGED <<ln_line, ln_old, ln_new, ln_out>>
    /\ UNCHANGED <<fvars, rvars, dvars, cvars>>

LNext == ParseLine \/ FormatLine \/ ReplaceLine

(***************************************************************************)
(* rootdev.py: the external commands                                       *)
(*                                                                         *)
(* An outcome of subprocess.run is what the command printed and how it     *)
(* ended: "ok" (exit 0), "nonzero", "timeout" (TimeoutExpired), "absent"   *)
(* (FileNotFoundError), "denied" (PermissionError: the tool is there and   *)
(* may not be executed).                                                   *)
(***************************************************************************)
Outcome(k, t) == [kind |-> k, stdout |-> t]

\* the failures run() turns into an empty string
FailedOutcomes ==
    { Outcome("nonzero", <<"usage", NL>>), Outcome("timeout", EMPTY),
      Outcome("absent", EMPTY) }

\* an exception run() does not catch
UncaughtOutcomes == { Outcome("denied", EMPTY) }

\* run with TimeoutExpired missing from the except clause
run_NoTimeoutCatch(o) ==
    [raised |-> o.kind \notin {"ok", "nonzero", "absent"},
     out |-> IF o.kind = "ok" THEN strip(universal_newlines(o.stdout), WS)
             ELSE EMPTY]

\* run(*cmd): stdout as subprocess.run(text=True) decodes it (universal
\* newlines), stripped; "" on a failure; raised when the exception is none of
\* those the except clause names
run(o) ==
    [raised |-> o.kind \notin {"ok", "nonzero", "timeout", "absent"},
     out |-> IF o.kind = "ok" THEN strip(universal_newlines(o.stdout), WS)
             ELSE EMPTY]

NONE == <<"<None>">>
DEV == <<"/", "dev", "/">>
MAPPER == <<"/", "dev", "/", "mapper", "/">>

\* findmnt -J: the document printed, as json.loads reads it.  shape "invalid":
\* JSONDecodeError; "nokey": no "filesystems"; "nolist": an empty list.
MountDoc(sh, src, fst, opts) ==
    [shape |-> sh, source |-> src, fstype |-> fst, options |-> opts]

MountDocs ==
    { MountDoc("invalid", EMPTY, EMPTY, EMPTY),
      MountDoc("nokey", EMPTY, EMPTY, EMPTY),
      MountDoc("nolist", EMPTY, EMPTY, EMPTY),
      MountDoc("ok", DEV \o <<"sda2">>, <<"ext4">>, <<"rw">>),
      MountDoc("ok", MAPPER \o <<"root_crypt", "[", "/", "a", "]">>, <<"btrfs">>,
               <<"rw", ",", "subvol=", "/", "a">>),
      MountDoc("ok", MAPPER \o <<"vg0-root">>, EMPTY, <<"rw", ",", "subvol=", "a">>),
      MountDoc("ok", DEV \o <<"dm-", "0">>, <<"btrfs">>, <<"subvol=", "/", "a", ",", "rw">>) }

FindmntOutcomes ==
    { [kind |-> "ok", stdout |-> <<"{", "}", NL>>, doc |-> d] : d \in MountDocs }
    \cup { [kind |-> o.kind, stdout |-> o.stdout, doc |-> MountDoc("invalid", EMPTY, EMPTY, EMPTY)] :
             o \in FailedOutcomes \cup UncaughtOutcomes }
    \cup { [kind |-> "ok", stdout |-> <<NL>>, doc |-> MountDoc("invalid", EMPTY, EMPTY, EMPTY)] }

\* names of partitions, which are no device-mapper nodes
Partitions == { <<"sda2">>, <<"sda3">>, <<"sdb1">> }

\* dmsetup table --target crypt NAME: a table line, or nothing when NAME has no
\* crypt target; NAME not a device-mapper node is an error
DmsetupOutcomes(name) ==
    (IF name \in Partitions THEN {}
     ELSE { Outcome("ok", <<"0", SP, "crypt", SP, "aes-xts", NL>>), Outcome("ok", EMPTY) })
    \cup FailedOutcomes \cup UncaughtOutcomes

\* cryptsetup status NAME
CryptsetupOutcomes ==
    { Outcome("ok", <<"type:", SP, "LUKS2", NL, SP, SP, "device:", SP, "/", "dev", "/", "sda2", NL,
                      SP, SP, "mode:", SP, "rw", NL>>),
      Outcome("ok", <<"type:", SP, "LUKS2", NL, "mode:", SP, "rw", NL>>),
      Outcome("ok", <<"type:", SP, "LUKS2", CR, NL, SP, SP, "device:", SP, "/", "dev", "/", "sda2", CR, NL,
                      SP, SP, "mode:", SP, "rw", CR, NL>>),
      Outcome("ok", <<SP, "device:", NL>>) }
    \cup FailedOutcomes \cup UncaughtOutcomes

\* blkid -s UUID -o value DEVICE
BlkidOutcomes ==
    { Outcome("ok", <<"abc-123", NL>>), Outcome("ok", EMPTY) }
    \cup FailedOutcomes \cup UncaughtOutcomes

\* lvs --noheadings -o vg_name,lv_name /dev/mapper/NAME
LvsOutcomes ==
    { Outcome("ok", <<SP, SP, "vg0", SP, "root", NL>>), Outcome("ok", EMPTY) }
    \cup FailedOutcomes \cup UncaughtOutcomes

\* pvs --noheadings -o pv_name -S vg_name=VG: one line for each physical volume
PvLine(name) == <<SP, SP>> \o name \o <<NL>>
PvsOutcomes ==
    { Outcome("ok", PvLine(MAPPER \o <<"cryptlvm">>)),
      Outcome("ok", PvLine(DEV \o <<"sda3">>)),
      Outcome("ok", PvLine(DEV \o <<"dm-", "3">>)),
      Outcome("ok", PvLine(MAPPER \o <<"crypt1">>) \o PvLine(MAPPER \o <<"crypt2">>)),
      Outcome("ok", PvLine(MAPPER \o <<"crypt1">>) \o PvLine(DEV \o <<"sdb1">>)),
      Outcome("ok", PvLine(DEV \o <<"sdb1">>) \o PvLine(MAPPER \o <<"crypt2">>)),
      Outcome("ok", <<SP, SP>> \o MAPPER \o <<"crypt1", CR, NL>> \o PvLine(MAPPER \o <<"crypt2">>)),
      Outcome("ok", EMPTY) }
    \cup FailedOutcomes \cup UncaughtOutcomes

\* the physical volumes a pvs listing names
NumPVs(listing) == Len(split_ws(listing))

(***************************************************************************)
(* detect_root and _detect_dm_type                                         *)
(***************************************************************************)
NoInfo ==
    [source |-> EMPTY, fstype |-> EMPTY, subvol |-> NONE, type |-> "plain",
     luks_uuid |-> NONE, luks_name |-> NONE, root_arg |-> EMPTY]

Query(c, a, o) == [cmd |-> c, arg |-> a, kind |-> o.kind]

\* lines 64-65
StripBracket(source) ==
    IF contains(source, <<"[">>)
    THEN SubSeq(source, 1, FirstIn(source, {"["}) - 1)
    ELSE source

\* lines 68-72
ExtractSubvol(options) ==
    LET opts == split_sep(options, ",")
        hits == {i \in 1..Len(opts) : startswith(opts[i], SUBVOL)}
    IN IF hits = {} THEN NONE
       ELSE LET i == CHOOSE i \in hits : \A j \in hits : i <= j
            IN SubSeq(opts[i], 2, Len(opts[i]))

\* line 85
IsMapperSource(source) ==
    contains(source, <<"/", "mapper", "/">>) \/ startswith(source, DEV \o <<"dm-">>)

\* lines 106-108 and 139-141: the last field of the first line holding "device:"
\* (<<>> when no line holds it)
DeviceOf(status) ==
    LET lines == splitlines(status)
        hits == {i \in 1..Len(lines) : contains(lines[i], <<"device:">>)}
    IN IF hits = {} THEN EMPTY
       ELSE LET i == CHOOSE i \in hits : \A j \in hits : i <= j
                fields == split_ws(lines[i])
            IN fields[Len(fields)]

DInit ==
    /\ dpc = "findmnt"
    /\ info = NoInfo
    /\ detected = FALSE
    /\ mapper = EMPTY
    /\ table = EMPTY
    /\ lv_info = EMPTY
    /\ pv = EMPTY
    /\ pv_mapper = EMPTY
    /\ pv_table = EMPTY
    /\ underlying = EMPTY
    /\ queries = << >>

\* an exception leaves detect_root
Abort == dpc' = "aborted"

\* lines 49-89 up to the call of _detect_dm_type
Findmnt ==
    /\ dpc = "findmnt"
    /\ \E o \in FindmntOutcomes :
          LET r == run(o)
              source == StripBracket(o.doc.source)
          IN /\ queries' = Append(queries, Query("findmnt", <<"/">>, o))
             /\ IF r.raised
                THEN Abort /\ UNCHANGED <<info, detected, mapper>>
                ELSE IF r.out = EMPTY \/ o.doc.shape # "ok"
                THEN /\ dpc' = "done"
                     /\ UNCHANGED <<info, detected, mapper>>
                ELSE /\ info' = [source |-> source,
                                 fstype |-> o.doc.fstype,
                                 subvol |-> ExtractSubvol(o.doc.options),
                                 type |-> "plain",
                                 luks_uuid |-> NONE,
                                 luks_name |-> NONE,
                                 root_arg |-> source]
                     /\ detected' = TRUE
                     /\ IF IsMapperSource(source)
                        THEN mapper' = rsplit_last(source) /\ dpc' = "dm_table"
                        ELSE UNCHANGED mapper /\ dpc' = "done"
    /\ UNCHANGED <<table, lv_info, pv, pv_mapper, pv_table, underlying>>
    /\ UNCHANGED <<fvars, rvars, cvars, lvars>>

\* DmTable with the luks branch falling through to the lvs probe
DmTable_FallsThrough ==
    /\ dpc = "dm_table"
    /\ \E o \in DmsetupOutcomes(mapper) :
          LET r == run(o)
          IN /\ queries' = Append(queries, Query("dmsetup", mapper, o))
             /\ IF r.raised
                THEN Abort /\ UNCHANGED <<info, table>>
                ELSE /\ table' = r.out
                     /\ IF r.out # EMPTY
                        THEN /\ info' = [info EXCEPT !.type = "luks",
                                                     !.luks_name = mapper,
                                                     !.root_arg = MAPPER \o mapper]
                             /\ dpc' = "lvs"
                        ELSE /\ UNCHANGED info
                             /\ dpc' = "lvs"
    /\ UNCHANGED <<detected, mapper, lv_info, pv, pv_mapper, pv_table, underlying>>
    /\ UNCHANGED <<fvars, rvars, cvars, lvars>>

\* lines 98-102 and 113
DmTable ==
    /\ dpc = "dm_table"
    /\ \E o \in DmsetupOutcomes(mapper) :
          LET r == run(o)
          IN /\ queries' = Append(queries, Query("dmsetup", mapper, o))
             /\ IF r.raised
                THEN Abort /\ UNCHANGED <<info, table>>
                ELSE /\ table' = r.out
                     /\ IF r.out # EMPTY
                        THEN /\ info' = [info EXCEPT !.type = "luks",
                                                     !.luks_name = mapper,
                                                     !.root_arg = MAPPER \o mapper]
                             /\ dpc' = "status"
                        ELSE /\ UNCHANGED info
                             /\ dpc' = "lvs"
    /\ UNCHANGED <<detected, mapper, lv_info, pv, pv_mapper, pv_table, underlying>>
    /\ UNCHANGED <<fvars, rvars, cvars, lvars>>

\* lines 105-108
Status ==
    /\ dpc = "status"
    /\ \E o \in CryptsetupOutcomes :
          LET r == run(o)
          IN /\ queries' = Append(queries, Query("cryptsetup", mapper, o))
             /\ IF r.raised
                THEN Abort /\ UNCHANGED underlying
                ELSE /\ underlying' = DeviceOf(r.out)
                     /\ dpc' = IF DeviceOf(r.out) # EMPTY THEN "blkid" ELSE "done"
    /\ UNCHANGED <<info, detected, mapper, table, lv_info, pv, pv_mapper, pv_table>>
    /\ UNCHANGED <<fvars, rvars, cvars, lvars>>

\* lines 109-112
Blkid ==
    /\ dpc = "blkid"
    /\ \E o \in BlkidOutcomes :
          LET r == run(o)
          IN /\ queries' = Append(queries, Query("blkid", underlying, o))
             /\ IF r.raised
                THEN Abort /\ UNCHANGED info
                ELSE /\ info' = IF r.out # EMPTY
                                THEN [info EXCEPT !.luks_uuid = r.out]
                                ELSE info
                     /\ dpc' = "done"
    /\ UNCHANGED <<detected, mapper, table, lv_info, pv, pv_mapper, pv_table, underlying>>
    /\ UNCHANGED <<fvars, rvars, cvars, lvars>>

\* lines 116-122
Lvs ==
    /\ dpc = "lvs"
    /\ \E o \in LvsOutcomes :
          LET r == run(o)
          IN /\ queries' = Append(queries, Query("lvs", MAPPER \o mapper, o))
             /\ IF r.raised
                THEN Abort /\ UNCHANGED <<info, lv_info>>
                ELSE /\ lv_info' = r.out
                     /\ IF r.out # EMPTY
                        THEN /\ info' = [info EXCEPT !.type = "lvm",
                                                     !.root_arg = MAPPER \o mapper]
                             /\ dpc' = IF Len(split_ws(r.out)) >= 1 THEN "pvs" ELSE "done"
                        ELSE /\ UNCHANGED info
                             /\ dpc' = "done"
    /\ UNCHANGED <<detected, mapper, table, pv, pv_mapper, pv_table, underlying>>
    /\ UNCHANGED <<fvars, rvars, cvars, lvars>>

\* lines 125-133
Pvs ==
    /\ dpc = "pvs"
    /\ \E o \in PvsOutcomes :
          LET r == run(o)
              vg == split_ws(lv_info)[1]
              p == strip(r.out, WS)
          IN /\ queries' = Append(queries, Query("pvs", vg, o))
             /\ IF r.raised
                THEN Abort /\ UNCHANGED <<pv, pv_mapper>>
                ELSE /\ pv' = p
                     /\ IF p # EMPTY /\ contains(p, <<"/", "mapper", "/">>)
                        THEN pv_mapper' = rsplit_last(p) /\ dpc' = "pv_table"
                        ELSE UNCHANGED pv_mapper /\ dpc' = "done"
    /\ UNCHANGED <<info, detected, mapper, table, lv_info, pv_table, underlying>>
    /\ UNCHANGED <<fvars, rvars, cvars, lvars>>

\* lines 134-137
PvTable ==
    /\ dpc = "pv_table"
    /\ \E o \in DmsetupOutcomes(pv_mapper) :
          LET r == run(o)
          IN /\ queries' = Append(queries, Query("dmsetup", pv_mapper, o))
             /\ IF r.raised
                THEN Abort /\ UNCHANGED <<info, pv_table>>
                ELSE /\ pv_table' = r.out
                     /\ IF r.out # EMPTY
                        THEN /\ info' = [info EXCEPT !.type = "luks+lvm",
                                                     !.luks_name = pv_mapper]
                             /\ dpc' = "pv_status"
                        ELSE /\ UNCHANGED info
                             /\ dpc' = "done"
    /\ UNCHANGED <<detected, mapper, table, lv_info, pv, pv_mapper, underlying>>
    /\ UNCHANGED <<fvars, rvars, cvars, lvars>>

\* lines 138-141
PvStatus ==
    /\ dpc = "pv_status"
    /\ \E o \in CryptsetupOutcomes :
          LET r == run(o)
          IN /\ queries' = Append(queries, Query("cryptsetup", pv_mapper, o))
             /\ IF r.raised
                THEN Abort /\ UNCHANGED underlying
                ELSE /\ underlying' = DeviceOf(r.out)
                     /\ dpc' = IF DeviceOf(r.out) # EMPTY THEN "pv_blkid" ELSE "done"
    /\ UNCHANGED <<info, detected, mapper, table, lv_info, pv, pv_mapper, pv_table>>
    /\ UNCHANGED <<fvars, rvars, cvars, lvars>>

\* lines 142-148
PvBlkid ==
    /\ dpc = "pv_blkid"
    /\ \E o \in BlkidOutcomes :
          LET r == run(o)
          IN /\ queries' = Append(queries, Query("blkid", underlying, o))
             /\ IF r.raised
                THEN Abort /\ UNCHANGED info
                ELSE /\ info' = IF r.out # EMPTY
                                THEN [info EXCEPT !.luks_uuid = r.out]
                                ELSE info
                     /\ dpc' = "done"
    /\ UNCHANGED <<detected, mapper, table, lv_info, pv, pv_mapper, pv_table, underlying>>
    /\ UNCHANGED <<fvars, rvars, cvars, lvars>>

DNext ==
    \/ Findmnt \/ DmTable \/ Status \/ Blkid \/ Lvs \/ Pvs \/ PvTable
    \/ PvStatus \/ PvBlkid

(***************************************************************************)
(* build_cmdline and the cmdline command of main                           *)
(***************************************************************************)
\* what an f-string prints for a value
fmt(v) == IF v = NONE THEN <<"None">> ELSE v

\* the truth value of info.get(key): None and "" are false
truthy(v) == v # NONE /\ v # EMPTY

\* build_cmdline with root= put first and the unlock directive after it
build_cmdline_RootFirst(i, new) ==
    LET unlock == IF i.type \in {"luks", "luks+lvm"} /\ truthy(i.luks_uuid)
                  THEN << <<"rd.luks.name=">> \o fmt(i.luks_uuid) \o <<"=">> \o fmt(i.luks_name) >>
                  ELSE << >>
        root == << <<"root=">> \o fmt(i.root_arg) >>
        rootfstype == IF truthy(i.fstype)
                      THEN << <<"rootfstype=">> \o fmt(i.fstype) >>
                      ELSE << >>
        rootflags == << <<"rootflags=", "subvol=">> \o new >>
    IN join(root \o unlock \o rootfstype \o rootflags, <<SP>>)

\* build_cmdline(info, new_subvol): the parts appended, joined by blanks
build_cmdline(i, new) ==
    LET unlock == IF i.type \in {"luks", "luks+lvm"} /\ truthy(i.luks_uuid)
                  THEN << <<"rd.luks.name=">> \o fmt(i.luks_uuid) \o <<"=">> \o fmt(i.luks_name) >>
                  ELSE << >>
        root == << <<"root=">> \o fmt(i.root_arg) >>
        rootfstype == IF truthy(i.fstype)
                      THEN << <<"rootfstype=">> \o fmt(i.fstype) >>
                      ELSE << >>
        rootflags == << <<"rootflags=", "subvol=">> \o new >>
    IN join(unlock \o root \o rootfstype \o rootflags, <<SP>>)

\* the SUBVOL argument of the command line
SubvolArgs == { <<"root-2">>, <<"/", "b", "/">> }

CInit ==
    /\ mpc = "detect"
    /\ subvol_arg \in SubvolArgs
    /\ cmdline = EMPTY

\* lines 190-199: the cmdline command, once detect_root has returned
Cmdline ==
    /\ mpc = "detect"
    /\ dpc = "done"
    /\ IF detected
       THEN /\ cmdline' = build_cmdline(info, subvol_arg)
            /\ mpc' = "printed"
       ELSE /\ mpc' = "failed"
            /\ UNCHANGED cmdline
    /\ UNCHANGED subvol_arg
    /\ UNCHANGED <<fvars, rvars, dvars, lvars>>

MNext == DNext \/ Cmdline

\* every RootDeviceInfo build_cmdline may be given
Infos ==
    { [source |-> MAPPER \o <<"root_crypt">>, fstype |-> f, subvol |-> NONE, type |-> t,
       luks_uuid |-> l[1], luks_name |-> l[2], root_arg |-> r] :
        f \in {EMPTY, <<"btrfs">>},
        t \in {"plain", "luks", "lvm", "luks+lvm"},
        l \in { <<NONE, NONE>>, <<NONE, <<"root_crypt">> >>,
                <<EMPTY, <<"root_crypt">> >>,
                <<<<"abc-123">>, <<"root_crypt">> >>, <<<<"abc-123">>, <<"cryptlvm">> >> },
        r \in { MAPPER \o <<"root_crypt">>, MAPPER \o <<"vg0-root">>, DEV \o <<"sda2">> } }

\* build_cmdline called on an info of the caller's
CInitGiven ==
    /\ dpc = "done"
    /\ info \in Infos
    /\ detected = TRUE
    /\ mapper = EMPTY
    /\ table = EMPTY
    /\ lv_info = EMPTY
    /\ pv = EMPTY
    /\ pv_mapper = EMPTY
    /\ pv_table = EMPTY
    /\ underlying = EMPTY
    /\ queries = << >>

(***************************************************************************)
(* Specifications                                                          *)
(***************************************************************************)
FIdle ==
    /\ disk = [n \in Names |-> Absent] /\ path = [stem |-> "fstab", suffix |-> ""]
    /\ pc = "off" /\ old_subvol = EMPTY /\ new_subvol = EMPTY
    /\ entries = << >> /\ updated = 0
    /\ original_stat = [owner |-> "none", mode |-> "none"]
    /\ result = "none" /\ stderr = {} /\ raisedAt = "none" /\ steps = {}
    /\ startContent = EMPTY /\ tampered = FALSE /\ runs = 1
    /\ history = << >>

CIdle ==
    /\ mpc = "off" /\ subvol_arg = EMPTY /\ cmdline = EMPTY

LIdle ==
    /\ ln_stage = 5 /\ ln_line = EMPTY /\ ln_old = EMPTY /\ ln_new = EMPTY
    /\ ln_entry = NonData(EMPTY) /\ ln_changed = FALSE /\ ln_out = EMPTY

RIdle ==
    /\ rw_stage = 3 /\ rw_entry = NonData(EMPTY)
    /\ rw_X = EMPTY /\ rw_Y = EMPTY /\ rw_orig = EMPTY

\* update_fstab, run up to MaxRuns times on one path
Init == (FInit \/ FInitAbsent) /\ RIdle /\ LIdle /\ DInit /\ CIdle
Next == FNext
Spec == Init /\ [][Next]_vars

\* replace_subvol forth and back
InitRewrite == RInit /\ LIdle /\ FIdle /\ DInit /\ CIdle
NextRewrite == RNext
SpecRewrite == InitRewrite /\ [][NextRewrite]_vars

\* detect_root, and the cmdline command on what it returned
InitDetect == DInit /\ CInit /\ FIdle /\ RIdle /\ LIdle
NextDetect == MNext
SpecDetect == InitDetect /\ [][NextDetect]_vars

\* build_cmdline
InitCmdline == CInitGiven /\ CInit /\ FIdle /\ RIdle /\ LIdle
NextCmdline == Cmdline
SpecCmdline == InitCmdline /\ [][NextCmdline]_vars

\* FstabEntry: parse, format, replace_subvol, format on one line
InitLine == LInit /\ FIdle /\ RIdle /\ DInit /\ CIdle
NextLine == LNext
SpecLine == InitLine /\ [][NextLine]_vars

(***************************************************************************)
(* Mount tables as the properties read them                                *)
(***************************************************************************)
\* no data entry of the text has mountpoint exactly /
NoRootEntry(text) ==
    \A i \in 1..Len(ParseAll(text)) : ~IsRoot(ParseAll(text)[i])

\* there are root entries, and none has a subvol= option matching old
NoMatchingSubvol(text, old) ==
    /\ ~NoRootEntry(text)
    /\ \A i \in 1..Len(ParseAll(text)) :
          IsRoot(ParseAll(text)[i]) => ~replace_subvol(ParseAll(text)[i], old, old).changed

StructuralErrors ==
    { "ERROR: No root (/) entry found in fstab",
      "ERROR: Root entry exists but subvol not found" }

(***************************************************************************)
(* Properties of update_fstab (specification Spec)                         *)
(***************************************************************************)

\* C1: every step of update_fstab that changes the content a reader finds at
\* path is the rename step, and it leaves the complete rewritten text there
\* (stated for a path whose temporary name is not path itself).
C1_OnlyRenameChangesPath ==
    [][ (pc' # pc /\ tmp # path /\ pathFile'.text # pathFile.text)
          => (pc = "rename" /\ pathFile'.text = Serialize(entries)) ]_vars

\* C2: a run that got as far as the re-read ends either with success and the
\* new subvolume named in the text at path, or, when the text re-read names it
\* in neither form, with failure after a rollback that left at path exactly
\* the content the run started from; success is never returned once the
\* rollback has begun.
C2_RollbackRestores ==
    /\ ("rollback" \in steps => result # "true")
    /\ (pc = "done" /\ "verify" \in steps)
          => \/ /\ result = "true"
                /\ Verified(pathFile.text, new_subvol)
                /\ "rollback" \notin steps
             \/ /\ result = "false"
                /\ "rollback" \in steps
                /\ "ERROR: Verification failed, restoring backup" \in stderr
                /\ pathFile.text = startContent

\* C3: a run on a table with no root entry, or with root entries none of which
\* names old, returns failure with a diagnostic, leaves path as it was, writes
\* no .tmp and renames nothing.
C3_StructuralErrorLeavesFile ==
    (/\ pc = "done" /\ "parse" \in steps
     /\ NoRootEntry(startContent) \/ NoMatchingSubvol(startContent, old_subvol))
      => /\ result = "false"
         /\ stderr \cap StructuralErrors # {}
         /\ pathFile = File(startContent, "fileowner", "filemode")
         /\ steps \cap {"write_tmp", "chown", "chmod", "rename", "verify", "rollback"} = {}

\* C3 witness: a table whose root entry names another subvolume.
C3_Witness ==
    /\ pc = "done" /\ result = "false"
    /\ NoMatchingSubvol(startContent, old_subvol)
    /\ "ERROR: Root entry exists but subvol not found" \in stderr
    /\ pathFile.text = startContent

\* C6: when a run has ended, whatever its outcome, no .tmp file exists
\* (stated for a path whose temporary name is not path itself).
C6_NoTmpAfterRun ==
    (pc = "done" /\ tmp # path) => ~tmpFile.exists

\* C7: when the copy to .bak cannot complete, update_fstab returns False (exit
\* code 1), has not parsed, written .tmp or renamed, and path is unchanged.
C7_BackupFailureReturnsFalse ==
    (pc = "done" /\ raisedAt = "backup")
      => /\ result = "false"
         /\ ExitCode = 1
         /\ steps \cap {"parse", "write_tmp", "rename"} = {}
         /\ pathFile.text = startContent

\* C10: whenever the content at path differs from the content the run started
\* from, .bak exists and holds that starting content; and after a successful
\* run .bak is there with it.
C10_BackupPrecedesChange ==
    /\ pathFile.text # startContent
          => (bakFile.exists /\ bakFile.text = startContent)
    /\ (pc = "done" /\ result = "true")
          => (bakFile.exists /\ bakFile.text = startContent)

\* C10 witness: a successful run that changed path, the other writer silent.
C10_Witness ==
    /\ pc = "done" /\ result = "true" /\ ~tampered
    /\ pathFile.text # startContent
    /\ bakFile.exists /\ bakFile.text = startContent

\* C11: from the moment write_text has opened .tmp until the rename, and after
\* a run that an error cut short at the write, the chown, the chmod or the
\* rename, the content a reader finds at path is the content the run started
\* from.
C11_PathOriginalUntilRename ==
    (\/ pc \in {"tmp_write", "chown", "chmod", "rename"}
     \/ pc = "done" /\ raisedAt \in {"write", "chown", "chmod", "rename"})
      => pathFile.text = startContent

\* C12: after a successful run with no other writer, the file at path has as
\* many lines as the file the run started from; every line that is no data line
\* is the original line, byte for byte; every data line has the device,
\* mountpoint, fstype, dump and passno of the original line at that place, and
\* its options too unless its mountpoint is exactly /.
C12_OnlyRootEntriesTouched ==
    (pc = "done" /\ result = "true" /\ ~tampered)
      => LET before == splitlines_keepends(startContent)
             after == splitlines_keepends(pathFile.text)
         IN /\ Len(after) = Len(before)
            /\ \A i \in 1..Len(before) :
                  LET b == parse(before[i])
                      a == parse(after[i])
                  IN /\ a.is_data = b.is_data
                     /\ ~b.is_data => after[i] = before[i]
                     /\ b.is_data
                           => /\ a.device = b.device
                              /\ a.mountpoint = b.mountpoint
                              /\ a.fstype = b.fstype
                              /\ a.dump = b.dump
                              /\ a.passno = b.passno
                     /\ (b.is_data /\ ~IsRoot(b)) => a.options = b.options

\* the entries update_fstab parses from a file holding these bytes
EntriesOf(bytes) == ParseAll(read_text(bytes))

\* the places of the root entries of a table, and of those among them that
\* have a subvol= option naming old
RootEntries(bytes) ==
    {i \in 1..Len(EntriesOf(bytes)) : IsRoot(EntriesOf(bytes)[i])}
MatchingRoots(bytes, old) ==
    {i \in RootEntries(bytes) :
        \E k \in 1..Len(split_sep(EntriesOf(bytes)[i].options, ",")) :
            OptMatches(split_sep(EntriesOf(bytes)[i].options, ",")[k], old)}

\* a run that ended without an error of a file operation and without another
\* writer, on a table with several root entries of which some, not all, name old
SomeRootsMatchRun ==
    /\ pc = "done" /\ raisedAt = "none" /\ ~tampered
    /\ Cardinality(RootEntries(startContent)) > 1
    /\ MatchingRoots(startContent, old_subvol) # {}
    /\ MatchingRoots(startContent, old_subvol) # RootEntries(startContent)

\* in the file at path exactly the root entries that named old name new now
ExactlyMatchingRewritten ==
    /\ Len(EntriesOf(pathFile.text)) = Len(EntriesOf(startContent))
    /\ \A i \in RootEntries(startContent) :
          IF i \in MatchingRoots(startContent, old_subvol)
          THEN /\ Verified(EntriesOf(pathFile.text)[i].options, new_subvol)
               /\ strip(old_subvol, SLASH) # strip(new_subvol, SLASH)
                     => ~Verified(EntriesOf(startContent)[i].options, new_subvol)
          ELSE EntriesOf(pathFile.text)[i].options = EntriesOf(startContent)[i].options

FailedAfterSuccess ==
    /\ history # << >> /\ history[Len(history)].result = "true"
    /\ pc = "done" /\ stderr \cap StructuralErrors # {}

\* C18: after every run that got past the test that path is a file, .bak holds
\* what path held when that run began; so after a successful run followed by a
\* run ending in a structural error, .bak holds what the successful run left
\* at path and no longer what path held before it.
C18_BackupOfEachRun ==
    /\ (pc = "done" /\ "backup" \in steps)
          => (bakFile.exists /\ bakFile.text = startContent)
    /\ FailedAfterSuccess
          => /\ bakFile.text = startContent
             /\ startContent # history[Len(history)].start
                   => bakFile.text # history[Len(history)].start

(***************************************************************************)
(* Properties of replace_subvol (specification SpecRewrite)                *)
(***************************************************************************)

\* C5: replace_subvol(e, X, Y) then replace_subvol(e, Y, X) leaves e.options
\* as it was, for every X and Y made of names and slashes.
C5_RoundTrip ==
    (rw_stage = 2 /\ rw_Y \in SubvolValues)
      => rw_entry.options = rw_orig

\* C5 as amended: the same, for X with at most one leading slash.
C5_RoundTripSingleSlash ==
    (/\ rw_stage = 2 /\ rw_Y \in SubvolValues
     /\ ~startswith(rw_X, <<"/", "/">>))
      => rw_entry.options = rw_orig

\* C5 witness: subvol=/a went to subvol=/b and came back.
C5_Witness ==
    /\ rw_stage = 2
    /\ rw_X = <<"/", "a">> /\ rw_Y = <<"/", "/", "b", "/">>
    /\ rw_entry.options = rw_orig
    /\ replace_subvol(rw_entry, rw_X, rw_Y).entry.options # rw_orig

(***************************************************************************)
(* Properties of FstabEntry on one line (specification SpecLine)           *)
(***************************************************************************)
\* the whitespace-separated fields of a line: the places where one begins
FieldStarts(line) ==
    {i \in 1..Len(line) : line[i] \notin WS /\ (i = 1 \/ line[i - 1] \in WS)}

\* the line is blank, or its first character that is no whitespace is #, or it
\* has fewer than four fields
NonDataLine(line) ==
    \/ \A i \in 1..Len(line) : line[i] \in WS
    \/ \E i \in FieldStarts(line) :
          line[i] = "#" /\ \A j \in FieldStarts(line) : i <= j
    \/ Cardinality(FieldStarts(line)) < 4

\* C14: for a line that is blank, a comment, or has fewer than four fields,
\* the entry parsed is no data entry, format() gives the line back exactly
\* (whitespace and line terminator, or its absence, included), and
\* replace_subvol returns False and leaves the entry and what it formats to
\* as they were.
C14_NonDataRoundTrip ==
    NonDataLine(ln_line)
      => /\ ln_stage \in 1..4 => (~ln_entry.is_data /\ ln_entry.raw = ln_line)
         /\ ln_stage \in 2..4 => ln_out = ln_line
         /\ ln_stage \in 3..4 => (~ln_changed /\ ln_entry = parse(ln_line))

\* C14 witness: a line of three fields, with leading whitespace and without a
\* line terminator, came back exactly, before and after replace_subvol.
C14_Witness ==
    /\ ln_stage = 4
    /\ Cardinality(FieldStarts(ln_line)) = 3
    /\ ln_line[1] \in WS /\ ln_line[Len(ln_line)] \notin WS
    /\ contains(ln_line, SUBVOL \o ln_old)
    /\ ln_out = ln_line /\ ~ln_changed

\* the value of a subvol= option
ValueOf(opt) == SubSeq(opt, 2, Len(opt))

\* C15: replace_subvol leaves the number and order of the options as they
\* were; an option subvol=V whose V names old is rewritten to subvol= followed
\* by new without its outer slashes, with one leading slash exactly when V
\* began with a slash, however old and new were written; every other option
\* is copied as it was.
C15_SlashStyleKept ==
    (ln_stage \in 3..4 /\ parse(ln_line).is_data)
      => LET before == split_sep(parse(ln_line).options, ",")
             after == split_sep(ln_entry.options, ",")
         IN /\ Len(after) = Len(before)
            /\ \A i \in 1..Len(before) :
                  IF /\ startswith(before[i], SUBVOL)
                     /\ lstrip(ValueOf(before[i]), SLASH) = strip(ln_old, SLASH)
                  THEN /\ startswith(after[i], SUBVOL)
                       /\ startswith(ValueOf(after[i]), <<"/">>)
                             <=> startswith(ValueOf(before[i]), <<"/">>)
                       /\ lstrip(ValueOf(after[i]), SLASH) = strip(ln_new, SLASH)
                       /\ ln_changed
                  ELSE after[i] = before[i]

\* C15 witness: in an entry with the options subvol=/a,subvol=a, rewritten
\* from a/ to /b, the first became subvol=/b and the second subvol=b.
C15_Witness ==
    /\ ln_stage = 3 /\ ln_changed
    /\ parse(ln_line).options = <<"subvol=", "/", "a", ",", "subvol=", "a">>
    /\ ln_old = <<"a", "/">> /\ ln_new = <<"/", "b">>
    /\ ln_entry.options = <<"subvol=", "/", "b", ",", "subvol=", "b">>

(***************************************************************************)
(* Properties of build_cmdline (specification SpecCmdline)                 *)
(***************************************************************************)
\* the arguments of the line printed
CmdlineParts == split_sep(cmdline, SP)

\* line 156: the topology is an encrypted one and luks_uuid is true (neither
\* None nor the empty text)
UnlockDue == info.type \in {"luks", "luks+lvm"} /\ truthy(info.luks_uuid)

\* C13: the line build_cmdline returns is, joined by single blanks and in this
\* order: rd.luks.name=<luks_uuid>=<luks_name> exactly when the type is luks or
\* luks+lvm and luks_uuid is present (set and not the empty text);
\* root=<root_arg> always; rootfstype=<fstype>
\* exactly when fstype is not empty; rootflags=subvol=<SUBVOL> always, SUBVOL
\* as given.  The unlock directive, when there, comes before root=.
C13_CmdlineOrder ==
    mpc = "printed"
      => LET n == Len(CmdlineParts)
             r == IF UnlockDue THEN 2 ELSE 1
         IN /\ n = r + (IF info.fstype # EMPTY THEN 2 ELSE 1)
            /\ UnlockDue
                  => CmdlineParts[1] = <<"rd.luks.name=">> \o info.luks_uuid
                                          \o <<"=">> \o info.luks_name
            /\ CmdlineParts[r] = <<"root=">> \o info.root_arg
            /\ info.fstype # EMPTY
                  => CmdlineParts[r + 1] = <<"rootfstype=">> \o info.fstype
            /\ CmdlineParts[n] = <<"rootflags=", "subvol=">> \o subvol_arg

\* C13 witness: the line for a luks root with UUID abc-123 and name root_crypt
\* on btrfs, for subvolume root-2.
C13_Witness ==
    /\ mpc = "printed"
    /\ info.type = "luks" /\ info.luks_uuid = <<"abc-123">>
    /\ info.luks_name = <<"root_crypt">> /\ info.fstype = <<"btrfs">>
    /\ cmdline = <<"rd.luks.name=", "abc-123", "=", "root_crypt", SP,
                    "root=", "/", "dev", "/", "mapper", "/", "root_crypt", SP,
                    "rootfstype=", "btrfs", SP,
                    "rootflags=", "subvol=", "root-2">>

(***************************************************************************)
(* Properties of detect_root (specification SpecDetect)                    *)
(***************************************************************************)
Topologies == {"plain", "luks", "lvm", "luks+lvm"}
CaughtFailures == {"nonzero", "timeout", "absent"}
Returned == dpc = "done" /\ detected

\* C4: a returned RootDeviceInfo has luks_uuid and luks_name both set or both
\* None, and both None when the type is plain.
C4_LuksFieldsTogether ==
    Returned
      => /\ (info.luks_uuid = NONE) <=> (info.luks_name = NONE)
         /\ info.type = "plain" => (info.luks_uuid = NONE /\ info.luks_name = NONE)

\* C8: the type is luks+lvm only when the root mapper has no crypt table, lvs
\* answered, pvs listed exactly one physical volume, a mapper node, and that
\* node has a crypt table; when pvs lists none or several, the type stays lvm
\* and no encryption field is set.
C8_UpgradeOnlyWithSinglePv ==
    Returned
      => /\ info.type = "luks+lvm"
               => /\ table = EMPTY /\ lv_info # EMPTY
                  /\ NumPVs(pv) = 1
                  /\ contains(pv, <<"/", "mapper", "/">>)
                  /\ pv_table # EMPTY
                  /\ info.luks_name = pv_mapper
         /\ (table = EMPTY /\ lv_info # EMPTY /\ NumPVs(pv) # 1)
               => /\ info.type = "lvm"
                  /\ info.luks_uuid = NONE /\ info.luks_name = NONE

\* C9: once findmnt has answered and parsed, and as long as every later query
\* ends ok, non-zero, timed out or absent, detect_root does not abort and
\* returns one of the four types; a failed crypt-table query is followed by
\* the lvs query; and with both failed the type is plain and root_arg the
\* source.
C9_FailuresDoNotAbort ==
    /\ (detected /\ \A i \in 1..Len(queries) : queries[i].kind \in CaughtFailures \cup {"ok"})
          => /\ dpc # "aborted"
             /\ dpc # "done" => ENABLED DNext
    /\ Returned => info.type \in Topologies
    /\ (Len(queries) >= 2 /\ queries[2].kind \in CaughtFailures)
          => IF Len(queries) = 2 THEN dpc = "lvs" ELSE queries[3].cmd = "lvs"
    /\ (/\ dpc = "done" /\ Len(queries) >= 3
        /\ queries[2].kind \in CaughtFailures /\ queries[3].kind \in CaughtFailures)
          => /\ detected /\ Len(queries) = 3
             /\ info.type = "plain" /\ info.root_arg = info.source
             /\ info.luks_uuid = NONE /\ info.luks_name = NONE

\* C9 witness: on a mapper source the crypt-table query timed out and lvs was
\* not installed; plain was returned.
C9_Witness ==
    /\ Returned /\ Len(queries) = 3
    /\ IsMapperSource(info.source)
    /\ queries[2].cmd = "dmsetup" /\ queries[2].kind = "timeout"
    /\ queries[3].cmd = "lvs" /\ queries[3].kind = "absent"
    /\ info.type = "plain" /\ info.root_arg = info.source

\* C19: once the crypt-table query for the root mapper has answered with a
\* table, the type is luks and stays luks, and no lvs and no pvs query is ever
\* issued; an lvs query is the third query, issued after a crypt-table query
\* for the root mapper that printed nothing or failed.
C19_LuksStopsProbing ==
    /\ table # EMPTY
          => /\ info.type = "luks"
             /\ dpc \in {"status", "blkid", "done", "aborted"}
             /\ \A i \in 1..Len(queries) : queries[i].cmd \notin {"lvs", "pvs"}
    /\ \A i \in 1..Len(queries) :
          queries[i].cmd = "lvs"
            => /\ i = 3
               /\ queries[2].cmd = "dmsetup" /\ queries[2].arg = mapper
               /\ queries[2].kind \in CaughtFailures \cup {"ok"}
               /\ table = EMPTY

\* C19 witness: the root mapper had a crypt table; detect_root asked
\* cryptsetup and blkid, nothing else, and returned luks.
C19_Witness ==
    /\ Returned /\ table # EMPTY
    /\ info.type = "luks" /\ info.luks_uuid # NONE
    /\ [i \in 1..Len(queries) |-> queries[i].cmd]
          = <<"findmnt", "dmsetup", "cryptsetup", "blkid">>

\* C20: when detect_root returned luks or luks+lvm, the line the cmdline
\* command prints holds an rd.luks.name= directive.
C20_EncryptedHasUnlock ==
    (mpc = "printed" /\ info.type \in {"luks", "luks+lvm"})
      => contains(cmdline, <<"rd.luks.name=">>)

====
